---- MODULE Spec2Model ----
\* Model of crates/dreammaker/src/annotation.rs: the Annotation fact type,
\* Annotation::resolved, and AnnotationTree (insert, merge, len, is_empty,
\* iter, get_location, get_range, get_range_raw) over the interval_tree
\* multimap keyed by inclusive Location ranges.
EXTENDS Integers, Sequences, FiniteSets, TLC

\* ---------------------------------------------------------------- bounds
\* Source locations handed to the tree by callers are 1..MaxLoc.
MaxLoc == 3
\* Total number of entries held by the two trees together.
MaxLen == 2

\* ------------------------------------------------------------- locations
\* Locations callers pass to insert and to the queries.  Location 0 is the
\* lowest position; it only arises as the predecessor of location 1.
Location == 1..MaxLoc

\* Location::pred: the immediately preceding position.
pred(loc) == loc - 1

\* interval_tree::range(start, end): the inclusive range [start, end].
\* The constructor does not check start <= end.
range(lo, hi) == [start |-> lo, end |-> hi]

\* std::ops::Range<Location>: the half-open range [start, end).
Place(s, e) == [start |-> s, end |-> e]

\* Half-open ranges that satisfy the callers' contract (non-empty).
Places == {Place(s, e) : s \in Location, e \in Location} \cap
          [start : Location, end : Location]

ValidPlaces == {p \in Places : p.start < p.end}

\* Half-open ranges allowed by the documented precondition start <= end.
StatedPlaces == {p \in Places : p.start <= p.end}

\* Inclusive ranges a caller of get_range_raw may hold: each single location
\* and the whole span.
RawRanges == {range(loc, loc) : loc \in Location} \cup {range(1, MaxLoc)}

\* ------------------------------------------------------------ annotations
\* enum Annotation: the variants other than ReturnOperation behave alike in
\* this file; ParentCall and ReturnStatement stand for them.
ParentCall == [tag |-> "ParentCall"]

ReturnOperation(r) == [tag |-> "ReturnOperation", range |-> r]

ReturnStatement(vs) == [tag |-> "ReturnStatement", returned_value |-> vs]

\* Facts the parser inserts.
Facts == {ParentCall, ReturnOperation(Place(1, 2))}

\* Facts handed to resolved: every variant, ReturnStatement included.
ResolveInputs == Facts \cup {ReturnStatement(<<ParentCall>>)}

\* ---------------------------------------------------------- interval tree
\* IntervalTree<Location, Annotation>: an ordered multimap from inclusive
\* ranges to values, held as the sequence of its (range, value) pairs in
\* iteration order: ascending by (start, end), equal ranges in insertion order.
IntervalTreeNew == <<>>

RangeLess(r1, r2) ==
    \/ r1.start < r2.start
    \/ r1.start = r2.start /\ r1.end < r2.end

\* IntervalTree::insert(range, value)
TreeInsert(t, r, v) ==
    LET k == Cardinality({i \in 1..Len(t) : ~RangeLess(r, t[i].range)})
    IN  SubSeq(t, 1, k) \o <<[range |-> r, value |-> v]>> \o SubSeq(t, k + 1, Len(t))

\* IntervalTree::merge(other): every pair of other is absorbed.
RECURSIVE TreeMerge(_, _)
TreeMerge(t, o) ==
    IF o = <<>> THEN t
    ELSE TreeMerge(TreeInsert(t, Head(o).range, Head(o).value), Tail(o))

\* Two inclusive ranges share a location.
Intersects(r, probe) == r.start <= probe.end /\ probe.start <= r.end

\* IntervalTree::range(probe): the pairs whose range overlaps the probe.
TreeRange(t, probe) ==
    LET Hit(ent) == Intersects(ent.range, probe) IN SelectSeq(t, Hit)

\* IntervalTree::iter()
TreeIter(t) == t

\* -------------------------------------------------------- AnnotationTree
\* impl Default for AnnotationTree
Default == [tree |-> IntervalTreeNew, len |-> 0]

\* insert that forgets the half-open to inclusive conversion of the end.
insert_no_pred(self, place, value) ==
    [tree |-> TreeInsert(self.tree, range(place.start, place.end), value),
     len  |-> self.len + 1]

\* insert that forgets to count.
insert_no_count(self, place, value) ==
    [tree |-> TreeInsert(self.tree, range(place.start, pred(place.end)), value),
     len  |-> self.len]

\* AnnotationTree::insert
insert(self, place, value) ==
    [tree |-> TreeInsert(self.tree, range(place.start, pred(place.end)), value),
     len  |-> self.len + 1]

\* merge that counts the merged tree as one entry.
merge_count_one(self, other) ==
    [tree |-> TreeMerge(self.tree, other.tree),
     len  |-> self.len + 1]

\* merge that replaces the entries instead of absorbing them.
merge_replace(self, other) ==
    [tree |-> other.tree,
     len  |-> self.len + other.len]

\* AnnotationTree::merge
merge(self, other) ==
    [tree |-> TreeMerge(self.tree, other.tree),
     len  |-> self.len + other.len]

\* AnnotationTree::len
len(self) == self.len

\* AnnotationTree::is_empty
is_empty(self) == self.len = 0

\* AnnotationTree::iter
iter(self) == TreeIter(self.tree)

\* get_location probing the location alone.
get_location_point(self, loc) == TreeRange(self.tree, range(loc, loc))

\* AnnotationTree::get_location
get_location(self, loc) == TreeRange(self.tree, range(pred(loc), loc))

\* get_range that forgets the half-open to inclusive conversion of the end.
get_range_no_pred(self, place) == TreeRange(self.tree, range(place.start, place.end))

\* AnnotationTree::get_range
get_range(self, place) == TreeRange(self.tree, range(place.start, pred(place.end)))

\* AnnotationTree::get_range_raw
get_range_raw(self, place) == TreeRange(self.tree, place)

\* The fact values of a sequence of (range, value) pairs.
Values(pairs) == [k \in 1..Len(pairs) |-> pairs[k].value]

\* resolved querying the inclusive range [start, end].
resolved_raw(self, annotation_tree) ==
    IF self.tag = "ReturnOperation"
    THEN ReturnStatement(Values(get_range_raw(annotation_tree,
                                              range(self.range.start, self.range.end))))
    ELSE self

\* resolved that rewrites every variant.
resolved_all(self, annotation_tree) ==
    IF self.tag \in {"ReturnOperation", "ReturnStatement"}
    THEN ReturnStatement(Values(get_range(annotation_tree,
            IF self.tag = "ReturnOperation" THEN self.range ELSE Place(1, MaxLoc))))
    ELSE self

\* resolved that also resolves the facts it collects, one level down.
resolved_deep(self, annotation_tree) ==
    LET One(f) == IF f.tag = "ReturnOperation"
                  THEN ReturnStatement(Values(get_range(annotation_tree, f.range)))
                  ELSE f
        found == Values(get_range(annotation_tree, self.range))
    IN  IF self.tag = "ReturnOperation"
        THEN ReturnStatement([k \in 1..Len(found) |-> One(found[k])])
        ELSE self

\* Annotation::resolved
resolved(self, annotation_tree) ==
    IF self.tag = "ReturnOperation"
    THEN ReturnStatement(Values(get_range(annotation_tree, self.range)))
    ELSE self

\* The fact values a tree holds.
Stored(self) == {self.tree[k].value : k \in 1..Len(self.tree)}

\* Number of get_range queries one call of Annotation::resolved issues.
resolved_queries(self) == IF self.tag = "ReturnOperation" THEN 1 ELSE 0

\* ------------------------------------------------------------------ state
VARIABLES
    annotation_tree,  \* the AnnotationTree being built and queried
    other,            \* the tree of an independently parsed unit, to be merged
    other_live,       \* other is bound (created and not yet moved into merge)
    hist,             \* what the two trees have been through
    ret               \* the most recent call: operation, arguments, result

vars == <<annotation_tree, other, other_live, hist, ret>>

\* History of two freshly created trees: the (place, value) arguments of the
\* insert calls that reached each tree, the number of insert calls made on
\* annotation_tree, the summed counts of the trees merged into it, and the
\* stored facts passed through resolved since its last change.
NoHist == [inserted |-> {}, other_inserted |-> {}, inserts |-> 0, merged |-> 0,
           passed |-> {}]

Call(op, arg, before, result) ==
    [op |-> op, arg |-> arg, before |-> before, result |-> result]

Init ==
    /\ annotation_tree = Default
    /\ other = Default
    /\ other_live = FALSE
    /\ hist = NoHist
    /\ ret = Call("default", <<>>, Default, <<>>)

\* Room for one more entry.
Room == Len(annotation_tree.tree) + Len(other.tree) < MaxLen

\* let other = AnnotationTree::default()
NewOther ==
    /\ ~other_live
    /\ other' = Default
    /\ other_live' = TRUE
    /\ ret' = Call("default", <<>>, Default, <<>>)
    /\ UNCHANGED <<annotation_tree, hist>>

\* other.insert(place, value): the sibling unit's parser at work.
InsertOther ==
    \E place \in ValidPlaces, value \in Facts :
        /\ other_live
        /\ Room
        /\ other' = insert(other, place, value)
        /\ hist' = [hist EXCEPT !.other_inserted =
                        @ \cup {[place |-> place, value |-> value]}]
        /\ ret' = Call("insert_other", [place |-> place, value |-> value], other, <<>>)
        /\ UNCHANGED <<annotation_tree, other_live>>

\* annotation_tree.insert(place, value)
InsertWith(place, value) ==
    /\ Room
    /\ annotation_tree' = insert(annotation_tree, place, value)
    /\ hist' = [hist EXCEPT !.inserted = @ \cup {[place |-> place, value |-> value]},
                            !.inserts = @ + 1,
                            !.passed = {}]
    /\ ret' = Call("insert", [place |-> place, value |-> value], annotation_tree, <<>>)
    /\ UNCHANGED <<other, other_live>>

\* insert called within the callers' contract: a non-empty range.
Insert == \E place \in ValidPlaces, value \in Facts : InsertWith(place, value)

\* insert called under the documented precondition start <= end.
InsertStated == \E place \in StatedPlaces, value \in Facts : InsertWith(place, value)

\* annotation_tree.merge(other): other is moved into the call.
Merge ==
    /\ other_live
    /\ annotation_tree' = merge(annotation_tree, other)
    /\ other' = Default
    /\ other_live' = FALSE
    /\ hist' = [hist EXCEPT !.inserted = @ \cup hist.other_inserted,
                            !.other_inserted = {},
                            !.merged = @ + other.len,
                            !.passed = {}]
    /\ ret' = Call("merge", other, annotation_tree, <<>>)

\* A read-only call on annotation_tree.
Query(op, arg, result) ==
    /\ ret' = Call(op, arg, annotation_tree, result)
    /\ UNCHANGED <<annotation_tree, other, other_live, hist>>

LenCall == Query("len", <<>>, len(annotation_tree))

IsEmptyCall == Query("is_empty", <<>>, is_empty(annotation_tree))

IterCall == Query("iter", <<>>, iter(annotation_tree))

GetLocation == \E loc \in Location :
    Query("get_location", loc, get_location(annotation_tree, loc))

GetRange == \E place \in ValidPlaces :
    Query("get_range", place, get_range(annotation_tree, place))

GetRangeRaw == \E place \in RawRanges :
    Query("get_range_raw", place, get_range_raw(annotation_tree, place))

\* fact.resolved(&annotation_tree): the tree is borrowed immutably.
Resolved ==
    \E self \in ResolveInputs :
        /\ ret' = Call("resolved", self, annotation_tree,
                       [value |-> resolved(self, annotation_tree),
                        queries |-> resolved_queries(self)])
        /\ hist' = [hist EXCEPT !.passed = @ \cup (Stored(annotation_tree) \cap {self})]
        /\ UNCHANGED <<annotation_tree, other, other_live>>

Reads ==
    \/ LenCall
    \/ IsEmptyCall
    \/ IterCall
    \/ GetLocation
    \/ GetRange
    \/ GetRangeRaw
    \/ Resolved

Next ==
    \/ NewOther
    \/ InsertOther
    \/ Insert
    \/ Merge
    \/ Reads

Spec == Init /\ [][Next]_vars

NextMerge ==
    \/ NewOther
    \/ InsertOther
    \/ Insert
    \/ Merge

\* The writers alone: the two trees are built and merged, nothing is read.
SpecMerge == Init /\ [][NextMerge]_vars

NextStated ==
    \/ InsertStated
    \/ Reads

\* One tree with insert exercised over the whole documented precondition
\* start <= end, and its queries.
SpecStated == Init /\ [][NextStated]_vars

\* ----------------------------------------------------------- properties
\* The (range, value) pair insert is to store for an insert call's arguments.
StoredPair(ins) ==
    [range |-> [start |-> ins.place.start, end |-> ins.place.end - 1],
     value |-> ins.value]

\* The pair is among the pairs a query returned.
Returned(result, pair) == \E k \in 1..Len(result) : result[k] = pair

\* Two sequences hold the same pairs, duplicates counted.
Count(seq, x) == Cardinality({k \in 1..Len(seq) : seq[k] = x})

SameBag(s1, s2) ==
    /\ Len(s1) = Len(s2)
    /\ \A k \in 1..Len(s1) : Count(s1, s1[k]) = Count(s2, s1[k])

\* The location lies in the half-open range of the insert call.
Covers(ins, loc) == ins.place.start <= loc /\ loc < ins.place.end

\* No other entry of the tree covers the location.
NoOtherCovers(ins, loc) == \A o \in hist.inserted \ {ins} : ~Covers(o, loc)

\* C1 as stated: a fact inserted with [s, e), s < e, into a tree with no other
\* entry covering L is returned by get_location(L) exactly when s <= L < e.
C1_Containment_Stated ==
    ret.op = "get_location" =>
        \A ins \in hist.inserted :
            (ins.place.start < ins.place.end /\ NoOtherCovers(ins, ret.arg)) =>
                (Returned(ret.result, StoredPair(ins)) <=> Covers(ins, ret.arg))

\* C1 amended: a fact inserted with [s, e), s < e, into a tree with no other
\* entry covering L is returned by get_location(L) exactly when s <= L <= e:
\* the probe [pred(L), L] also reaches the fact that ends just before L.
C1_Containment ==
    ret.op = "get_location" =>
        \A ins \in hist.inserted :
            (ins.place.start < ins.place.end /\ NoOtherCovers(ins, ret.arg)) =>
                (Returned(ret.result, StoredPair(ins)) <=>
                    (ins.place.start <= ret.arg /\ ret.arg <= ins.place.end))

\* get_location was asked for the location right at the end of an inserted
\* range, and for that tree it returned the fact.
C1_Witness ==
    /\ ret.op = "get_location"
    /\ \E ins \in hist.inserted :
        /\ ret.arg = ins.place.end
        /\ NoOtherCovers(ins, ret.arg)
        /\ Returned(ret.result, StoredPair(ins))

\* C2: len() is the number of insert calls plus the counts of the merged
\* trees, is_empty() holds exactly when that sum is 0, and no query changes
\* the count.
C2_CountInvariant ==
    /\ len(annotation_tree) = hist.inserts + hist.merged
    /\ is_empty(annotation_tree) <=> (hist.inserts + hist.merged = 0)
    /\ ret.op = "len" => ret.result = hist.inserts + hist.merged
    /\ ret.op = "is_empty" => (ret.result <=> (hist.inserts + hist.merged = 0))
    /\ ret.op \in {"len", "is_empty", "iter", "get_location", "get_range",
                   "get_range_raw", "resolved"} =>
           len(annotation_tree) = len(ret.before)

\* len() was called on a tree that has seen an insert and a merge of a
\* non-empty tree.
C2_Witness ==
    /\ ret.op = "len"
    /\ hist.inserts >= 1
    /\ hist.merged >= 1

\* C3: get_range([a, b)) returns a fact inserted with [s, e) exactly when
\* [s, pred(e)] overlaps [a, pred(b)]; a fact touching pred(b) is returned, a
\* fact starting at b is not.
C3_RangeBoundary ==
    ret.op = "get_range" =>
        \A ins \in hist.inserted :
            LET s == ins.place.start
                e == ins.place.end
                a == ret.arg.start
                b == ret.arg.end
                got == Returned(ret.result, StoredPair(ins))
            IN  /\ got <=> (s <= b - 1 /\ a <= e - 1)
                /\ (s <= b - 1 /\ b - 1 <= e - 1) => got
                /\ s = b => ~got

\* get_range([a, b)) ran on a tree holding a fact that touches pred(b) and a
\* fact that starts at b.
C3_Witness ==
    /\ ret.op = "get_range"
    /\ \E ins \in hist.inserted :
        /\ ins.place.start = ret.arg.end - 1
        /\ Returned(ret.result, StoredPair(ins))
    /\ \E ins \in hist.inserted :
        /\ ins.place.start = ret.arg.end
        /\ ~Returned(ret.result, StoredPair(ins))

\* The stored pairs of the tree whose inclusive range shares a location with
\* the half-open range r.
Overlapping(self, r) ==
    {k \in 1..Len(self.tree) :
        self.tree[k].range.start <= r.end - 1 /\ r.start <= self.tree[k].range.end}

\* C4: resolved(ReturnOperation(r), T) is ReturnStatement{returned_value} with
\* returned_value the fact values of get_range(r) on T, in order and with
\* multiplicity; it is empty when no stored fact overlaps r.
C4_Resolution ==
    (ret.op = "resolved" /\ ret.arg.tag = "ReturnOperation") =>
        LET pairs == get_range(annotation_tree, ret.arg.range) IN
        /\ ret.result.value.tag = "ReturnStatement"
        /\ Len(ret.result.value.returned_value) = Len(pairs)
        /\ \A k \in 1..Len(pairs) : ret.result.value.returned_value[k] = pairs[k].value
        /\ Overlapping(annotation_tree, ret.arg.range) = {} =>
               ret.result.value = ReturnStatement(<<>>)

\* resolved ran for a ReturnOperation on a tree holding two different facts
\* that overlap its range, and both came back.
C4_Witness ==
    /\ ret.op = "resolved"
    /\ ret.arg.tag = "ReturnOperation"
    /\ Len(ret.result.value.returned_value) = 2
    /\ ret.result.value.returned_value[1] # ret.result.value.returned_value[2]

\* Every stored ReturnOperation has been passed through resolved against the
\* tree as it is now.
FullyResolved ==
    \A v \in Stored(annotation_tree) : v.tag = "ReturnOperation" => v \in hist.passed

\* C5: once every stored ReturnOperation has been passed through resolved
\* against the tree, no fact the tree yields (iter, get_location, get_range,
\* get_range_raw) is a ReturnOperation.
C5_NoReturnOperation ==
    FullyResolved =>
        /\ \A v \in Stored(annotation_tree) : v.tag # "ReturnOperation"
        /\ ret.op \in {"iter", "get_location", "get_range", "get_range_raw"} =>
               \A k \in 1..Len(ret.result) : ret.result[k].value.tag # "ReturnOperation"

\* Trees of at most one entry: the third operand of a merge chain.
SmallTrees ==
    {Default} \cup {insert(Default, place, value) : place \in ValidPlaces, value \in Facts}

\* (a + b) + c and a + (b + c) hold the same pairs and the same count.
Assoc(a, b, c) ==
    LET l == merge(merge(a, b), c)
        r == merge(a, merge(b, c))
    IN  /\ SameBag(iter(l), iter(r))
        /\ len(l) = len(r)

\* C6: merging B into A and then C into the result yields the same multiset
\* of (range, fact) pairs and the same len() as merging C into B and that
\* into A, for the two trees of the state and every small third tree, the
\* third taken in each position of the chain.
C6_MergeAssoc ==
    \A c \in SmallTrees :
        /\ Assoc(annotation_tree, other, c)
        /\ Assoc(annotation_tree, c, other)
        /\ Assoc(c, annotation_tree, other)

\* Both trees are non-empty and hold an identical pair, and a merge has
\* already happened: a chain of merges with duplicates to count.
C6_Witness ==
    /\ other_live
    /\ hist.merged >= 1
    /\ \E k \in 1..Len(other.tree) : Returned(annotation_tree.tree, other.tree[k])

\* C7 as stated: insert with start <= end stores the fact under the
\* well-formed inclusive range [start, pred(end)] and adds one to the count.
C7_Insert_Stated ==
    (ret.op = "insert" /\ ret.arg.place.start <= ret.arg.place.end) =>
        /\ Returned(iter(annotation_tree), StoredPair(ret.arg))
        /\ StoredPair(ret.arg).range.start <= StoredPair(ret.arg).range.end
        /\ Len(iter(annotation_tree)) = Len(iter(ret.before)) + 1
        /\ len(annotation_tree) = len(ret.before) + 1

\* C7 amended: insert with start < end stores the fact under the well-formed
\* inclusive range [start, pred(end)] and adds one to the count.
C7_Insert ==
    (ret.op = "insert" /\ ret.arg.place.start < ret.arg.place.end) =>
        /\ Returned(iter(annotation_tree), StoredPair(ret.arg))
        /\ StoredPair(ret.arg).range.start <= StoredPair(ret.arg).range.end
        /\ Len(iter(annotation_tree)) = Len(iter(ret.before)) + 1
        /\ len(annotation_tree) = len(ret.before) + 1

\* insert of a non-empty range ran on a non-empty tree.
C7_Witness ==
    /\ ret.op = "insert"
    /\ ret.arg.place.start < ret.arg.place.end
    /\ len(ret.before) >= 1

\* C8: merging a freshly created tree leaves len() and the pairs of iter and
\* of every get_location, get_range and get_range_raw query as they were.
C8_EmptyMerge ==
    (ret.op = "merge" /\ ret.arg = Default) =>
        /\ len(annotation_tree) = len(ret.before)
        /\ SameBag(iter(annotation_tree), iter(ret.before))
        /\ \A loc \in Location :
               SameBag(get_location(annotation_tree, loc), get_location(ret.before, loc))
        /\ \A place \in ValidPlaces :
               SameBag(get_range(annotation_tree, place), get_range(ret.before, place))
        /\ \A place \in RawRanges :
               SameBag(get_range_raw(annotation_tree, place), get_range_raw(ret.before, place))

\* A freshly created tree was merged into a non-empty tree.
C8_Witness ==
    /\ ret.op = "merge"
    /\ ret.arg = Default
    /\ len(ret.before) >= 1

\* C9: resolved returns every fact that is not a ReturnOperation unchanged,
\* whatever the tree holds, and leaves the tree as it was.
C9_Passthrough ==
    (ret.op = "resolved" /\ ret.arg.tag # "ReturnOperation") =>
        /\ ret.result.value = ret.arg
        /\ annotation_tree = ret.before

\* resolved ran for a ReturnStatement on a non-empty tree.
C9_Witness ==
    /\ ret.op = "resolved"
    /\ ret.arg.tag = "ReturnStatement"
    /\ Len(annotation_tree.tree) >= 1

\* C10: resolved(ReturnOperation(r), T) copies the overlapping facts verbatim:
\* every stored ReturnOperation overlapping r is in returned_value as it is
\* stored, every element of returned_value is a stored fact, and the call
\* issued exactly one get_range query.
C10_SingleLevel ==
    (ret.op = "resolved" /\ ret.arg.tag = "ReturnOperation") =>
        LET rv == ret.result.value.returned_value IN
        /\ \A k \in Overlapping(annotation_tree, ret.arg.range) :
               annotation_tree.tree[k].value.tag = "ReturnOperation" =>
                   \E j \in 1..Len(rv) : rv[j] = annotation_tree.tree[k].value
        /\ \A j \in 1..Len(rv) : rv[j] \in Stored(annotation_tree)
        /\ ret.result.queries = 1

\* The resolved ReturnOperation is itself stored over a range overlapping its
\* own sub-range and came back inside returned_value.
C10_Witness ==
    /\ ret.op = "resolved"
    /\ ret.arg.tag = "ReturnOperation"
    /\ \E k \in Overlapping(annotation_tree, ret.arg.range) :
           annotation_tree.tree[k].value = ret.arg
    /\ \E j \in 1..Len(ret.result.value.returned_value) :
           ret.result.value.returned_value[j] = ret.arg
====
